---- MODULE Spec2Model ----
(***************************************************************************)
(* Model of bot.py (Nexus bot): the script-level flow                      *)
(*   load indexes -> on each question, query the loaded indexes ->         *)
(*   concatenate text -> call remote model -> send the answer in messages. *)
(*                                                                         *)
(* Everything runs on one asyncio event loop.  `running` is the task that  *)
(* holds the loop thread (0 = the loop is free).  A task gives the loop up *)
(* only at an await of something that suspends (ctx.typing(), ainvoke,     *)
(* ctx.send, bot.close); the retriever .invoke calls are synchronous and   *)
(* keep the loop for their whole duration.                                 *)
(*                                                                         *)
(* Texts are modelled by their origin and length; the characters of an     *)
(* answer are identified by their offsets, so a slice answer[lo:hi] is     *)
(* the interval lo..hi-1.  Separators ("\n\n") inside the context are not  *)
(* modelled.  Transport failures of ctx.send and failures of the client    *)
(* constructors in load_bot_brains (lines 47 and 102) are not modelled.    *)
(* The per-question logs `calls` and `sent` cover the call in progress:    *)
(* they are emptied when get_ai_response, respectively ask, ends.          *)
(***************************************************************************)
EXTENDS Integers, Sequences, FiniteSets, TLC

\* ---------------------------------------------------------------- bounds
NumQuestions == 2      \* questions (ask commands) that may arrive
MaxParts     == 2      \* answer lengths go up to MaxParts chunks plus one char
MaxDocs      == 1      \* documents an index holds for a question
MaxPad       == 1      \* leading / trailing whitespace of the model's reply

\* ------------------------------------------------------ program constants
MsgLimit     == 2000   \* len(answer) <= 2000
ChunkSize    == 1990   \* range(0, len(answer), 1990), answer[i:i+1990]
FenceLen     == 3      \* "```"
EssaysK      == 3      \* search_kwargs={"k": 3}
DossiersK    == 2      \* search_kwargs={"k": 2}
NotLoadedLen == 41     \* len("My core logic is not loaded. Please wait.")
ErrorLen     == 54     \* len("An error occurred while I was processing that thought.")
NoticeLen    == 37     \* len("The answer is long. Sending in parts:")

Questions == 1..NumQuestions
None      == "None"

Min(a, b) == IF a <= b THEN a ELSE b

\* Lengths of the stripped model reply that the model explores: the empty
\* reply, the single-message limit and its successor, and the exact multiple
\* MaxParts * ChunkSize and its successor.
AnswerLens ==
    {0, MsgLimit, MsgLimit + 1, MaxParts * ChunkSize, MaxParts * ChunkSize + 1}

VARIABLES
    essays_retriever,    \* global: None or "retriever"
    dossiers_retriever,  \* global: None or "retriever"
    nexus_chain,         \* global: None or "chain"
    lastLoad,            \* the last load_bot_brains run: what loaded, what it returned
    closing,             \* on_ready is awaiting bot.close()
    closed,              \* bot.close() has taken effect; bot.run returns
    running,             \* question whose task holds the event loop, 0 if free
    pc,                  \* per question: position of its ask task
    essay_docs,          \* per question: local of get_ai_response
    dossier_docs,        \* per question: local of get_ai_response
    chainIn,             \* per question: input of the model call in flight
    answer,              \* per question: local of ask
    off,                 \* per question: loop variable i of ask (next offset)
    sent,                \* per question: messages the ask in progress has
                         \* handed to ctx.send, in order
    calls,               \* per question: index / model calls of the
                         \* get_ai_response in progress, in order
    everCalled,          \* an index query or a model call has been started
    modelAnswered        \* a model call has returned an answer

vars == <<essays_retriever, dossiers_retriever, nexus_chain, lastLoad,
          closing, closed, running, pc, essay_docs, dossier_docs, chainIn,
          answer, off, sent, calls, everCalled, modelAnswered>>

globals == <<essays_retriever, dossiers_retriever, nexus_chain>>
loader  == <<lastLoad, closing, closed>>
locals  == <<essay_docs, dossier_docs, chainIn, answer, off, sent, calls>>
history == <<everCalled, modelAnswered>>

\* ------------------------------------------------------------------ texts
NoAnswer       == [kind |-> "none", len |-> 0]
NotLoadedReply == [kind |-> "notloaded", len |-> NotLoadedLen]
ErrorReply     == [kind |-> "error", len |-> ErrorLen]

\* result.strip(): the reply without its leading and trailing whitespace
Strip(result) == [kind |-> "model", len |-> result.body]

\* Replies of the model: a body of one of the lengths above, bare or with
\* MaxPad whitespace characters on both sides
ModelResults ==
    {[lead |-> p, body |-> b, trail |-> p] : p \in {0, MaxPad}, b \in AnswerLens}

\* Numbers of documents a retriever built with search_kwargs k can return
DocCounts(k) == 0..Min(k, MaxDocs)

\* ---------------------------------------------------------------- loading
\* Variant: a failed or skipped load resets the global to None.
LoadIndexReset(old, exists, ok) ==
    IF exists /\ ok THEN "retriever" ELSE None

\* One index of load_bot_brains: the retriever global after the attempt.
LoadIndex(old, exists, ok) ==
    IF exists /\ ok THEN "retriever" ELSE old

\* Variant: `or` in place of `and`.
LoadResultEither(e, d) == ~(e = None \/ d = None)

\* `if not essays_retriever and not dossiers_retriever: return False`
LoadResult(e, d) == ~(e = None /\ d = None)

\* Variant: the guard on nexus_chain is missing.
ChainLoadedAlways(chain) == TRUE

\* `if not nexus_chain` fails, i.e. the chain is loaded
ChainLoaded(chain) == chain # None

\* ------------------------------------------------------------- retrieval
\* retriever.invoke(question): n documents of that index for that question
Retrieve(index, question, n) ==
    [r \in 1..n |-> [index |-> index, question |-> question, rank |-> r]]

\* Variant: the condition is inverted.
ShouldQueryInverted(retriever) == retriever = None

\* `x_retriever.invoke(question) if x_retriever else []`
ShouldQuery(retriever) == retriever # None

PrimaryHeader    == [header |-> "PRIMARY TRUTH (FROM ESSAYS)"]
SupportingHeader == [header |-> "SUPPORTING PERSPECTIVES (FROM DOSSIERS)"]
NoInfoText       == <<[header |-> "No information was found"]>>

\* Variant: the dossiers section is put in front of the essays section.
BuildContextSwapped(edocs, ddocs) ==
    LET c1 == IF ddocs # <<>> THEN <<SupportingHeader>> \o ddocs ELSE <<>>
        c2 == IF edocs # <<>> THEN c1 \o <<PrimaryHeader>> \o edocs ELSE c1
    IN  IF c2 = <<>> THEN NoInfoText ELSE c2

\* The combined context string, as the sequence of its headers and documents.
BuildContext(edocs, ddocs) ==
    LET c1 == IF edocs # <<>> THEN <<PrimaryHeader>> \o edocs ELSE <<>>
        c2 == IF ddocs # <<>> THEN c1 \o <<SupportingHeader>> \o ddocs ELSE c1
    IN  IF c2 = <<>> THEN NoInfoText ELSE c2

\* Variant: the context built for the question is not the one passed on.
ChainInputNoContext(context, question) ==
    [context |-> NoInfoText, question |-> question]

\* No model call in flight
NoInput == [context |-> <<>>, question |-> 0]

\* nexus_chain.ainvoke({"context": context, "question": question})
ChainInput(context, question) ==
    [context |-> context, question |-> question]

\* --------------------------------------------------------------- messages
PlainMessage(a) == [kind |-> "plain", src |-> a.kind, lo |-> 0, hi |-> a.len]
NoticeMessage   == [kind |-> "notice", src |-> "notice", lo |-> 0, hi |-> NoticeLen]

\* Variant: the slice is as wide as the message limit.
PartMessageWide(a, i) ==
    [kind |-> "part", src |-> a.kind, lo |-> Min(i, a.len),
     hi |-> Min(i + MsgLimit, a.len)]

\* f"```{answer[i:i+1990]}```"
PartMessage(a, i) ==
    [kind |-> "part", src |-> a.kind, lo |-> Min(i, a.len),
     hi |-> Min(i + ChunkSize, a.len)]

\* Variant: the loop steps by the message limit.
NextOffsetLimit(i) == i + MsgLimit

\* the next value of range(0, len(answer), 1990)
NextOffset(i) == i + ChunkSize

\* `len(answer) <= 2000`
FitsOneMessage(a) == a.len <= MsgLimit

MsgLen(m) ==
    IF m.kind = "part" THEN FenceLen + (m.hi - m.lo) + FenceLen
    ELSE m.hi - m.lo

\* ------------------------------------------------------------------- Init
Init ==
    /\ essays_retriever = None
    /\ dossiers_retriever = None
    /\ nexus_chain = None
    /\ lastLoad = [ran |-> FALSE, essays |-> FALSE, dossiers |-> FALSE,
                   result |-> FALSE]
    /\ closing = FALSE
    /\ closed = FALSE
    /\ running = 0
    /\ pc = [q \in Questions |-> "idle"]
    /\ essay_docs = [q \in Questions |-> <<>>]
    /\ dossier_docs = [q \in Questions |-> <<>>]
    /\ chainIn = [q \in Questions |-> NoInput]
    /\ answer = [q \in Questions |-> NoAnswer]
    /\ off = [q \in Questions |-> 0]
    /\ sent = [q \in Questions |-> <<>>]
    /\ calls = [q \in Questions |-> <<>>]
    /\ everCalled = FALSE
    /\ modelAnswered = FALSE

\* ---------------------------------------------------------------- actions
Log(q, call, event) == [calls EXCEPT ![q] = Append(@, <<call, event>>)]

\* on_ready: runs load_bot_brains (synchronous, so atomic on the event loop)
\* and, when it returns False, starts awaiting bot.close().  READY may be
\* delivered again after a reconnect, but not once close has been called.
on_ready(eExists, eOk, dExists, dOk) ==
    /\ ~closed /\ ~closing /\ running = 0
    /\ LET e == LoadIndex(essays_retriever, eExists, eOk)
           d == LoadIndex(dossiers_retriever, dExists, dOk)
           result == LoadResult(e, d)
       IN  /\ essays_retriever' = e
           /\ dossiers_retriever' = d
           /\ nexus_chain' = IF result THEN "chain" ELSE nexus_chain
           /\ closing' = ~result
           /\ lastLoad' = [ran |-> TRUE, essays |-> eExists /\ eOk,
                           dossiers |-> dExists /\ dOk, result |-> result]
    /\ UNCHANGED <<closed, running, pc, locals, history>>

\* bot.close() takes effect: bot.run returns and the script ends.
bot_close ==
    /\ closing /\ ~closed /\ running = 0
    /\ closed' = TRUE
    /\ UNCHANGED <<globals, lastLoad, closing, running, pc, locals, history>>

\* The ask command is invoked and suspends entering `async with ctx.typing()`.
ask(q) ==
    /\ ~closed /\ running = 0
    /\ pc[q] = "idle"
    /\ pc' = [pc EXCEPT ![q] = "typing"]
    /\ UNCHANGED <<globals, loader, running, locals, history>>

\* get_ai_response is entered: `if not nexus_chain: return ...`
get_ai_response(q) ==
    /\ ~closed /\ running = 0
    /\ pc[q] = "typing"
    /\ running' = q
    /\ IF ChainLoaded(nexus_chain)
       THEN /\ pc' = [pc EXCEPT ![q] = "essays"]
            /\ UNCHANGED answer
       ELSE /\ answer' = [answer EXCEPT ![q] = NotLoadedReply]
            /\ pc' = [pc EXCEPT ![q] = "reply"]
    /\ UNCHANGED <<globals, loader, essay_docs, dossier_docs, chainIn, off,
                   sent, calls, history>>

\* `essay_docs = essays_retriever.invoke(question) if essays_retriever else []`
query_essays(q) ==
    /\ ~closed /\ running = q
    /\ pc[q] = "essays"
    /\ IF ShouldQuery(essays_retriever)
       THEN /\ calls' = Log(q, "essays", "start")
            /\ everCalled' = TRUE
            /\ pc' = [pc EXCEPT ![q] = "essays_wait"]
            /\ UNCHANGED essay_docs
       ELSE /\ essay_docs' = [essay_docs EXCEPT ![q] = <<>>]
            /\ pc' = [pc EXCEPT ![q] = "dossiers"]
            /\ UNCHANGED <<calls, everCalled>>
    /\ UNCHANGED <<globals, loader, running, dossier_docs, chainIn, answer,
                   off, sent, modelAnswered>>

essays_return(q, n) ==
    /\ ~closed /\ running = q
    /\ pc[q] = "essays_wait"
    /\ essay_docs' = [essay_docs EXCEPT ![q] = Retrieve("essays", q, n)]
    /\ calls' = Log(q, "essays", "end")
    /\ pc' = [pc EXCEPT ![q] = "dossiers"]
    /\ UNCHANGED <<globals, loader, running, dossier_docs, chainIn, answer,
                   off, sent, history>>

\* `dossier_docs = dossiers_retriever.invoke(question) if dossiers_retriever else []`
query_dossiers(q) ==
    /\ ~closed /\ running = q
    /\ pc[q] = "dossiers"
    /\ IF ShouldQuery(dossiers_retriever)
       THEN /\ calls' = Log(q, "dossiers", "start")
            /\ everCalled' = TRUE
            /\ pc' = [pc EXCEPT ![q] = "dossiers_wait"]
            /\ UNCHANGED dossier_docs
       ELSE /\ dossier_docs' = [dossier_docs EXCEPT ![q] = <<>>]
            /\ pc' = [pc EXCEPT ![q] = "build"]
            /\ UNCHANGED <<calls, everCalled>>
    /\ UNCHANGED <<globals, loader, running, essay_docs, chainIn, answer,
                   off, sent, modelAnswered>>

dossiers_return(q, n) ==
    /\ ~closed /\ running = q
    /\ pc[q] = "dossiers_wait"
    /\ dossier_docs' = [dossier_docs EXCEPT ![q] = Retrieve("dossiers", q, n)]
    /\ calls' = Log(q, "dossiers", "end")
    /\ pc' = [pc EXCEPT ![q] = "build"]
    /\ UNCHANGED <<globals, loader, running, essay_docs, chainIn, answer,
                   off, sent, history>>

\* A retriever .invoke raises: lines 118-119 are outside the try block, so
\* the exception leaves get_ai_response and ask, and the task ends.
query_raise(q) ==
    /\ ~closed /\ running = q
    /\ pc[q] \in {"essays_wait", "dossiers_wait"}
    /\ pc' = [pc EXCEPT ![q] = "raised"]
    /\ running' = 0
    /\ essay_docs' = [essay_docs EXCEPT ![q] = <<>>]
    /\ dossier_docs' = [dossier_docs EXCEPT ![q] = <<>>]
    /\ calls' = [calls EXCEPT ![q] = <<>>]
    /\ UNCHANGED <<globals, loader, chainIn, answer, off, sent, history>>

\* The context is built and `await nexus_chain.ainvoke(...)` suspends the task.
invoke_chain(q) ==
    /\ ~closed /\ running = q
    /\ pc[q] = "build"
    /\ chainIn' = [chainIn EXCEPT ![q] =
                     ChainInput(BuildContext(essay_docs[q], dossier_docs[q]), q)]
    /\ calls' = Log(q, "model", "start")
    /\ everCalled' = TRUE
    /\ pc' = [pc EXCEPT ![q] = "model_wait"]
    /\ running' = 0
    /\ UNCHANGED <<globals, loader, essay_docs, dossier_docs, answer, off,
                   sent, modelAnswered>>

\* get_ai_response returns from its try block: its locals are gone
Return(q, text) ==
    /\ answer' = [answer EXCEPT ![q] = text]
    /\ chainIn' = [chainIn EXCEPT ![q] = NoInput]
    /\ essay_docs' = [essay_docs EXCEPT ![q] = <<>>]
    /\ dossier_docs' = [dossier_docs EXCEPT ![q] = <<>>]
    /\ calls' = [calls EXCEPT ![q] = <<>>]
    /\ pc' = [pc EXCEPT ![q] = "reply"]
    /\ running' = q

\* ainvoke returns: `return result.strip()`
chain_return(q, result) ==
    /\ ~closed /\ running = 0
    /\ pc[q] = "model_wait"
    /\ Return(q, Strip(result))
    /\ modelAnswered' = TRUE
    /\ UNCHANGED <<globals, loader, off, sent, everCalled>>

\* ainvoke raises: `except Exception` prints and returns the fallback string
chain_raise(q) ==
    /\ ~closed /\ running = 0
    /\ pc[q] = "model_wait"
    /\ Return(q, ErrorReply)
    /\ UNCHANGED <<globals, loader, off, sent, history>>

\* ask, after get_ai_response returned: the first ctx.send
reply(q) ==
    /\ ~closed /\ running = q
    /\ pc[q] = "reply"
    /\ IF FitsOneMessage(answer[q])
       THEN /\ sent' = [sent EXCEPT ![q] = Append(@, PlainMessage(answer[q]))]
            /\ pc' = [pc EXCEPT ![q] = "sent"]
            /\ UNCHANGED off
       ELSE /\ sent' = [sent EXCEPT ![q] = Append(@, NoticeMessage)]
            /\ off' = [off EXCEPT ![q] = 0]
            /\ pc' = [pc EXCEPT ![q] = "parts"]
    /\ running' = 0
    /\ UNCHANGED <<globals, loader, essay_docs, dossier_docs, chainIn, answer,
                   calls, history>>

\* one iteration of `for i in range(0, len(answer), 1990)`
send_part(q) ==
    /\ ~closed /\ running = 0
    /\ pc[q] = "parts"
    /\ off[q] < answer[q].len
    /\ sent' = [sent EXCEPT ![q] = Append(@, PartMessage(answer[q], off[q]))]
    /\ off' = [off EXCEPT ![q] = NextOffset(off[q])]
    /\ UNCHANGED <<globals, loader, running, pc, essay_docs, dossier_docs,
                   chainIn, answer, calls, history>>

\* the last ctx.send has returned and ask ends: its locals are gone
finish(q) ==
    /\ ~closed /\ running = 0
    /\ \/ pc[q] = "sent"
       \/ pc[q] = "parts" /\ off[q] >= answer[q].len
    /\ pc' = [pc EXCEPT ![q] = "done"]
    /\ answer' = [answer EXCEPT ![q] = NoAnswer]
    /\ off' = [off EXCEPT ![q] = 0]
    /\ sent' = [sent EXCEPT ![q] = <<>>]
    /\ UNCHANGED <<globals, loader, running, essay_docs, dossier_docs, chainIn,
                   calls, history>>

Next ==
    \/ \E eExists, eOk, dExists, dOk \in BOOLEAN :
          on_ready(eExists, eOk, dExists, dOk)
    \/ bot_close
    \/ \E q \in Questions : ask(q)
    \/ \E q \in Questions : get_ai_response(q)
    \/ \E q \in Questions : query_essays(q)
    \/ \E q \in Questions, n \in DocCounts(EssaysK) : essays_return(q, n)
    \/ \E q \in Questions : query_dossiers(q)
    \/ \E q \in Questions, n \in DocCounts(DossiersK) : dossiers_return(q, n)
    \/ \E q \in Questions : query_raise(q)
    \/ \E q \in Questions : invoke_chain(q)
    \/ \E q \in Questions, result \in ModelResults : chain_return(q, result)
    \/ \E q \in Questions : chain_raise(q)
    \/ \E q \in Questions : reply(q)
    \/ \E q \in Questions : send_part(q)
    \/ \E q \in Questions : finish(q)

Spec == Init /\ [][Next]_vars

\* ------------------------------------------------------------ properties
Started(call) == <<call, "start">>
Ended(call)   == <<call, "end">>

\* The index calls of a question that found the retrievers e and d
ExpectedCalls(e, d) ==
    (IF e # None THEN <<Started("essays"), Ended("essays")>> ELSE <<>>)
      \o (IF d # None THEN <<Started("dossiers"), Ended("dossiers")>> ELSE <<>>)

ModelStarts(log) == Cardinality({i \in DOMAIN log : log[i] = Started("model")})

CallRank(call) ==
    IF call = "essays" THEN 1 ELSE IF call = "dossiers" THEN 2 ELSE 3

\* Calls in flight according to a log: started and not yet ended
InFlight(log) ==
    {i \in DOMAIN log :
        /\ log[i][2] = "start"
        /\ ~\E j \in DOMAIN log : j > i /\ log[j][1] = log[i][1]}

\* One call at a time, in the order essays, dossiers, model
Sequential(log) ==
    /\ Cardinality(InFlight(log)) <= 1
    /\ \A i \in DOMAIN log :
          log[i][2] = "start" =>
             \A j \in DOMAIN log :
                j < i => /\ CallRank(log[j][1]) < CallRank(log[i][1])
                         /\ j \notin InFlight(log)

IsDoc(x) == "rank" \in DOMAIN x
DocsOf(context) == SelectSeq(context, IsDoc)
HeaderAt(context, h) == {i \in DOMAIN context : context[i] = h}
HasHeader(context, h) == HeaderAt(context, h) # {}

AwaitingModel(q) == pc[q] = "model_wait"

C2_NoErrorEscapes ==
    \A q \in Questions : pc[q] # "raised"

C4_NeitherLoadsCloses ==
    (lastLoad.ran /\ ~lastLoad.essays /\ ~lastLoad.dossiers) =>
        (~lastLoad.result /\ nexus_chain = None /\ closing)

\* C4 (amended): when after a load_bot_brains run neither retriever is set
\* (no index loaded in this run and none kept from an earlier run), the run
\* returned False, no chain exists and on_ready closes the bot; from then on
\* no index has ever been queried and the model never called.  When at least
\* one index loads in the run, the run returns True and on_ready does not
\* close the bot.
C4_NoRetrieverCloses ==
    /\ (lastLoad.ran /\ essays_retriever = None /\ dossiers_retriever = None) =>
          (~lastLoad.result /\ nexus_chain = None /\ closing)
    /\ closing =>
          /\ lastLoad.ran /\ ~lastLoad.result
          /\ essays_retriever = None /\ dossiers_retriever = None
          /\ nexus_chain = None
          /\ ~everCalled /\ ~modelAnswered
          /\ \A q \in Questions : calls[q] = <<>> /\ chainIn[q] = NoInput
    /\ closed => closing
    /\ (lastLoad.ran /\ (lastLoad.essays \/ lastLoad.dossiers)) =>
          (lastLoad.result /\ nexus_chain # None /\ ~closing /\ ~closed)

C4_Witness ==
    /\ closing /\ ~closed
    /\ \E q \in Questions :
          pc[q] = "sent" /\ answer[q].kind = "notloaded"

\* C5 (as stated): whenever the model is called, the context has both
\* section headers, PRIMARY TRUTH first.
C5_BothHeaders ==
    \A q \in Questions :
        AwaitingModel(q) =>
            /\ HasHeader(chainIn[q].context, PrimaryHeader)
            /\ HasHeader(chainIn[q].context, SupportingHeader)
            /\ \A i \in HeaderAt(chainIn[q].context, PrimaryHeader) :
                  \A j \in HeaderAt(chainIn[q].context, SupportingHeader) : i < j

\* C5 (amended): whenever the model is called, the context has the PRIMARY
\* TRUTH section exactly when the essays query returned documents and the
\* SUPPORTING PERSPECTIVES section exactly when the dossiers query returned
\* documents, each header at most once and PRIMARY TRUTH first when both are
\* there; with no documents at all the context is the fixed "No information
\* was found ..." text.
C5_HeadersFollowDocs ==
    \A q \in Questions :
        AwaitingModel(q) =>
            LET c == chainIn[q].context
                P == HeaderAt(c, PrimaryHeader)
                S == HeaderAt(c, SupportingHeader)
            IN  /\ (P # {}) <=> (essay_docs[q] # <<>>)
                /\ (S # {}) <=> (dossier_docs[q] # <<>>)
                /\ Cardinality(P) <= 1 /\ Cardinality(S) <= 1
                /\ P # {} => 1 \in P
                /\ \A i \in P : \A j \in S : i < j
                /\ (P = {} /\ S = {}) => c = NoInfoText

C5_Witness ==
    \E q \in Questions :
        /\ AwaitingModel(q)
        /\ ~HasHeader(chainIn[q].context, PrimaryHeader)
        /\ HasHeader(chainIn[q].context, SupportingHeader)

\* C6: a question that enters get_ai_response while nexus_chain is unset
\* gets exactly the 41-character "not loaded" text; that text is sent as one
\* plain message, after which ask ends; and for that question no index is
\* queried and the model is not called.  With the chain set the "not loaded"
\* text is not the answer.
C6_NotLoadedReply ==
    [][\A q \in Questions :
          /\ (pc[q] = "typing" /\ pc'[q] # "typing") =>
                IF nexus_chain = None
                THEN /\ answer'[q] = [kind |-> "notloaded", len |-> 41]
                     /\ pc'[q] = "reply"
                     /\ calls'[q] = <<>> /\ chainIn'[q] = NoInput
                     /\ everCalled' = everCalled
                ELSE answer'[q].kind # "notloaded"
          /\ (answer[q].kind = "notloaded" /\ pc'[q] # pc[q]) =>
                /\ calls'[q] = <<>> /\ chainIn'[q] = NoInput
                /\ everCalled' = everCalled
                /\ pc[q] = "reply" =>
                      /\ pc'[q] = "sent"
                      /\ sent'[q] = <<[kind |-> "plain", src |-> "notloaded",
                                       lo |-> 0, hi |-> 41]>>
                /\ pc[q] = "sent" => pc'[q] = "done"
      ]_vars

C6_Witness ==
    \E q \in Questions :
        /\ pc[q] = "sent"
        /\ answer[q].kind = "notloaded"
        /\ Len(sent[q]) = 1
        /\ ~everCalled

CeilDiv(n, d) == (n + d - 1) \div d

\* The messages of a finished ask, for its answer
MessagesFor(a, s) ==
    IF a.len <= 2000
    THEN s = <<[kind |-> "plain", src |-> a.kind, lo |-> 0, hi |-> a.len]>>
    ELSE /\ Len(s) = 1 + CeilDiv(a.len, 1990)
         /\ s[1].kind = "notice" /\ MsgLen(s[1]) = 37
         /\ \A i \in 2..Len(s) :
               /\ s[i].kind = "part"
               /\ s[i].hi - s[i].lo <= 1990
               /\ MsgLen(s[i]) = 3 + (s[i].hi - s[i].lo) + 3

\* C7: every message ask sends is at most 2000 characters long; an answer of
\* at most 2000 characters is sent as one message, a longer one as the notice
\* followed by ceil(len/1990) parts of at most 1990 answer characters between
\* two 3-character fences.
C7_MessagesWithinLimit ==
    [][\A q \in Questions :
          /\ \A i \in DOMAIN sent'[q] : MsgLen(sent'[q][i]) <= 2000
          /\ (pc'[q] = "done" /\ pc[q] # "done") => MessagesFor(answer[q], sent[q])
      ]_vars

C7_Witness ==
    \E q \in Questions :
        /\ pc[q] = "parts"
        /\ answer[q].len = MaxParts * ChunkSize + 1
        /\ off[q] >= answer[q].len
        /\ Len(sent[q]) = MaxParts + 2

\* C8: for a long answer the parts sent so far are non-empty slices that start
\* at offset 0 and each start where the previous one ended, and they cover the
\* answer up to the loop's offset: when the loop ends they cover exactly the
\* whole answer, nothing dropped and nothing sent twice.
C8_PartsCoverAnswer ==
    \A q \in Questions :
        pc[q] = "parts" =>
            LET parts == Tail(sent[q])
                covered == IF parts = <<>> THEN 0 ELSE parts[Len(parts)].hi
            IN  /\ answer[q].len > 2000
                /\ \A k \in DOMAIN parts :
                      /\ parts[k].kind = "part"
                      /\ parts[k].lo < parts[k].hi
                      /\ parts[k].lo = IF k = 1 THEN 0 ELSE parts[k - 1].hi
                /\ covered = Min(off[q], answer[q].len)

C8_Witness ==
    \E q \in Questions :
        /\ pc[q] = "parts"
        /\ answer[q].len = MaxParts * ChunkSize
        /\ off[q] >= answer[q].len
        /\ Len(sent[q]) = MaxParts + 1

\* C9: once set, essays_retriever, dossiers_retriever and nexus_chain are
\* never unset; a step of a question leaves all three unchanged; and once a
\* question has been answered through the model, no question gets the "not
\* loaded" reply any more.
C9_LoadedStateStable ==
    [][/\ essays_retriever # None => essays_retriever' # None
       /\ dossiers_retriever # None => dossiers_retriever' # None
       /\ nexus_chain # None => nexus_chain' # None
       /\ (pc' # pc \/ sent' # sent) => globals' = globals
       /\ modelAnswered =>
             \A q \in Questions :
                 answer'[q].kind = "notloaded" => answer[q].kind = "notloaded"
      ]_vars

C9_Witness ==
    /\ modelAnswered
    /\ lastLoad.ran /\ ~lastLoad.essays /\ ~lastLoad.dossiers
    /\ essays_retriever # None /\ dossiers_retriever # None
    /\ \E q \in Questions : AwaitingModel(q) /\ Len(calls[q]) = 5

====
